---- MODULE Spec2Model ----
(***************************************************************************)
(* A model of the image editor: the client component ImageEditor           *)
(* (src/app/components/ImageEditor.tsx) and the edit-image route handler   *)
(* (src/unnamed/part_000).                                                 *)
(*                                                                         *)
(* Conventions                                                             *)
(*  - JPEG quality is kept in hundredths (0.7 is 70). The code's doubles   *)
(*    0.7 - 0.2 - 0.2 - 0.2 end a hair under 0.1 and Math.max(0.1, .)      *)
(*    clamps them to 0.1, so the comparisons with the floor agree with the *)
(*    integer arithmetic used here.                                        *)
(*  - A raster is a record [width, height, data], data a sequence of       *)
(*    width*height pixels <<r, g, b, a>> (the flat RGBA array of           *)
(*    ImageData, one entry per stride of 4).                               *)
(*  - An absent value (null) is the record Null.                           *)
(***************************************************************************)
EXTENDS Integers, Sequences, FiniteSets, TLC

\* ------------------------------------------------------------------ sizes

\* compressImage(file, 4000): the budget in KB.
MaxSizeKB == 4000
\* Bytes per KB, as the code multiplies.
KB == 1024
\* maxSizeKB * 1024, the byte budget of the compressor.
Budget == MaxSizeKB * KB
\* The gateway's maxSize = 4 * 1024 * 1024.
GatewayMaxSize == 4 * 1024 * 1024
\* file.size > 10 * 1024 * 1024 chooses the aggressive settings.
LargeFile == 10 * 1024 * 1024

QualityHigh == 70
QualityLow == 30
QualityFloor == 10
QualityStep == 20
DimensionHigh == 1200
DimensionLow == 800
DimensionFloor == 400
DimensionStep == 200

\* useState<number>(20): the brush's diameter before the slider is moved.
DefaultBrushSize == 20

Max(a, b) == IF a >= b THEN a ELSE b
Min(a, b) == IF a <= b THEN a ELSE b

Null == [kind |-> "null"]

\* ------------------------------------------------------------------ files

\* Sizes of the files a user may pick: both sides of each threshold.
FileSizes == {0, 4000000, 4000001, Budget, Budget + 1, GatewayMaxSize,
              GatewayMaxSize + 1, LargeFile, LargeFile + 1}

\* Sizes the JPEG encoder may hand back; the encoder is the browser's, and
\* nothing in the code bounds what it returns.
BlobSizes == {1, Budget, Budget + 1, GatewayMaxSize + 1, LargeFile + 2}

File(name, size, type, decodable, w, h) ==
    [kind |-> "file", name |-> name, size |-> size, type |-> type,
     decodable |-> decodable, width |-> w, height |-> h]

\* Files offered to the compressor on its own.
CompressFiles ==
    { File("a", s, "image/png", d, wh[1], wh[2]) :
        s \in FileSizes, d \in BOOLEAN, wh \in {<<1, 2>>, <<3000, 1500>>, <<900, 1300>>} }

\* --------------------------------------------------------------- variables

VARIABLES
    uploads,            \* the handleImageUpload calls in progress, by slot
    image,              \* useState image: the loaded HTMLImageElement
    originalFile,       \* useState originalFile: the file held for submission
    isDrawing,          \* useState isDrawing
    brushSize,          \* useState brushSize: the brush's diameter in raster pixels
    prompt,             \* useState prompt
    editedImage,        \* useState editedImage: the displayed result's URL
    maskImage,          \* useState maskImage: the generated alpha mask
    isLoading,          \* useState isLoading
    error,              \* useState error: the banner text ("" is none)
    canvas,             \* canvasRef.current: the display canvas (Null: not mounted)
    maskCanvas,         \* maskCanvasRef.current: the mask canvas (Null: not mounted)
    originalImageData,  \* originalImageDataRef.current
    submits,            \* the handleSubmit calls in progress, by slot
    gw                  \* the route handler's current POST

reactVars == <<image, originalFile, isDrawing, brushSize, prompt, editedImage,
               maskImage, isLoading, error>>
domVars == <<canvas, maskCanvas, originalImageData>>
vars == <<uploads, image, originalFile, isDrawing, brushSize, prompt, editedImage,
          maskImage, isLoading, error, canvas, maskCanvas, originalImageData, submits,
          gw>>

\* How many handleImageUpload calls may overlap.
MaxConcurrentUploads == 2
UploadSlots == 1..MaxConcurrentUploads

IdleUpload ==
    [pc |-> "idle", file |-> Null, ctx |-> FALSE, quality |-> 0,
     dimension |-> 0, tried |-> <<>>, result |-> Null]

\* ------------------------------------------------------------- compressor

\* Line 46 without the case of files over 10 MiB.
InitialQualityAlwaysHigh(file) == QualityHigh

\* Lines 46-47: the first quality and max dimension, by input size.
InitialQuality(file) == IF file.size > LargeFile THEN QualityLow ELSE QualityHigh
InitialDimension(file) == IF file.size > LargeFile THEN DimensionLow ELSE DimensionHigh

\* Lines 51-66: the canvas size for an attempt; assigning canvas.width
\* truncates the quotient to an integer.
ScaledDims(w, h, targetDimension) ==
    IF w > h
    THEN IF w > targetDimension
         THEN <<targetDimension, (h * targetDimension) \div w>>
         ELSE <<w, h>>
    ELSE IF h > targetDimension
         THEN <<(w * targetDimension) \div h, targetDimension>>
         ELSE <<w, h>>

\* Lines 74-77: new File([blob], file.name, {type: 'image/jpeg'}).
CompressedFile(file, blobSize, targetDimension) ==
    LET wh == ScaledDims(file.width, file.height, targetDimension)
    IN  File(file.name, blobSize, "image/jpeg", TRUE, wh[1], wh[2])

\* resolve(f): the promise of compressImage settles; handleImageUpload
\* resumes after its await in a later step.
Resolve(rec, f) == [rec EXCEPT !.pc = "resolved", !.result = f]

\* Lines 49-104: one call of compressWithSettings, up to the point where it
\* either resolves (no 2D context) or leaves a toBlob callback pending.
compressWithSettings(rec, targetQuality, targetDimension) ==
    IF rec.ctx
    THEN [rec EXCEPT !.pc = "encode", !.quality = targetQuality,
                     !.dimension = targetDimension,
                     !.tried = Append(@, <<targetQuality, targetDimension>>)]
    ELSE Resolve(rec, rec.file)

\* compressImage with a budget of 4,000,000 bytes: maxSizeKB taken times 1000.
compressImageDecimalBudget(file, ctx) ==
    LET rec == [IdleUpload EXCEPT !.file = file, !.ctx = ctx]
    IN  IF file.size <= 4000000
        THEN Resolve(rec, file)
        ELSE [rec EXCEPT !.pc = "decode"]

\* Lines 33-43, 113: compressImage up to its first suspension.
compressImage(file, ctx) ==
    LET rec == [IdleUpload EXCEPT !.file = file, !.ctx = ctx]
    IN  IF file.size <= Budget
        THEN Resolve(rec, file)
        ELSE [rec EXCEPT !.pc = "decode"]

\* Lines 118-129: handleImageUpload up to the await of compressImage.
handleImageUpload(u, file, ctx) ==
    /\ uploads[u].pc \in {"idle", "done"}
    /\ error' = ""
    /\ uploads' = [uploads EXCEPT ![u] = compressImage(file, ctx)]
    /\ editedImage' = Null
    /\ maskImage' = Null
    /\ UNCHANGED <<image, brushSize, originalFile, isDrawing, prompt, isLoading, domVars,
                   submits, gw>>

\* Lines 44-47, 106: img.onload of the compressor's image.
CompressImgOnload(u) ==
    /\ uploads[u].pc = "decode"
    /\ uploads[u].file.decodable
    /\ uploads' = [uploads EXCEPT ![u] =
            compressWithSettings(@, InitialQuality(@.file), InitialDimension(@.file))]
    /\ UNCHANGED <<reactVars, domVars, submits, gw>>

\* Lines 109-111: img.onerror of the compressor's image.
CompressImgOnerror(u) ==
    /\ uploads[u].pc = "decode"
    /\ ~uploads[u].file.decodable
    /\ uploads' = [uploads EXCEPT ![u] = Resolve(@, @.file)]
    /\ UNCHANGED <<reactVars, domVars, submits, gw>>

\* The retry of lines 83-88 without its floor check.
AfterEncodeNoFloor(rec, blobSize) ==
    LET compressedFile == CompressedFile(rec.file, blobSize, rec.dimension)
    IN  IF compressedFile.size > Budget
        THEN compressWithSettings(rec,
                 Max(QualityFloor, rec.quality - QualityStep),
                 Max(DimensionFloor, rec.dimension - DimensionStep))
        ELSE Resolve(rec, compressedFile)

\* Lines 82-96: what the toBlob callback does with a non-null blob.
AfterEncode(rec, blobSize) ==
    LET compressedFile == CompressedFile(rec.file, blobSize, rec.dimension)
    IN  IF compressedFile.size > Budget
        THEN IF rec.quality > QualityFloor /\ rec.dimension > DimensionFloor
             THEN compressWithSettings(rec,
                      Max(QualityFloor, rec.quality - QualityStep),
                      Max(DimensionFloor, rec.dimension - DimensionStep))
             ELSE Resolve(rec, compressedFile)
        ELSE Resolve(rec, compressedFile)

\* Lines 72-96: the toBlob callback with a blob.
ToBlobCallback(u, blobSize) ==
    /\ uploads[u].pc = "encode"
    /\ uploads' = [uploads EXCEPT ![u] = AfterEncode(@, blobSize)]
    /\ UNCHANGED <<reactVars, domVars, submits, gw>>

\* Lines 97-99: the toBlob callback with null.
ToBlobNull(u) ==
    /\ uploads[u].pc = "encode"
    /\ uploads' = [uploads EXCEPT ![u] = Resolve(@, @.file)]
    /\ UNCHANGED <<reactVars, domVars, submits, gw>>

\* Lines 129-153: handleImageUpload after its await: the compressed file is
\* held and the FileReader is started.
AfterCompress(u) ==
    /\ uploads[u].pc = "resolved"
    /\ originalFile' = uploads[u].result
    /\ uploads' = [uploads EXCEPT ![u].pc = "reading"]
    /\ UNCHANGED <<image, brushSize, isDrawing, prompt, editedImage, maskImage, isLoading, error,
                   domVars, submits, gw>>

\* ----------------------------------------------------------------- rasters

TransparentPixel == <<0, 0, 0, 0>>
BlackPixel == <<0, 0, 0, 255>>
WhitePixel == <<255, 255, 255, 255>>

Raster(w, h, data) == [kind |-> "raster", width |-> w, height |-> h, data |-> data]
Filled(w, h, pixel) == Raster(w, h, [i \in 1..(w * h) |-> pixel])

\* A canvas element rendered without width and height attributes (lines
\* 556-572) has the default size and is transparent. The model's rasters are
\* a few pixels large: the default 300 x 150 is kept in proportion only.
DefaultCanvasDims == <<2, 1>>
BlankCanvas == Filled(DefaultCanvasDims[1], DefaultCanvasDims[2], TransparentPixel)

\* The pixels an image decodes to: one opaque colour per file name.
PixelOf(name) ==
    CASE name = "a" -> <<200, 30, 60, 255>>
      [] name = "b" -> <<100, 250, 40, 255>>
      [] OTHER -> <<0, 0, 0, 255>>

\* The HTMLImageElement a decodable file loads to.
ImageOf(file) == [kind |-> "img", name |-> file.name, width |-> file.width,
                  height |-> file.height]

\* ctx.drawImage(img, 0, 0) on a canvas of the image's size, then getImageData.
ImagePixels(img) == Filled(img.width, img.height, PixelOf(img.name))

\* The values a mask pixel's channels take: the two sides of the comparison
\* with 128, and the extremes.
Levels == {0, 128, 129, 255}

\* ------------------------------------------------------- upload, continued

\* Lines 162-199: setupCanvas. The refs are read when it runs; the model
\* takes the 2D context of a mounted canvas to be always available.
setupCanvas(img) ==
    IF canvas = Null \/ maskCanvas = Null
    THEN [canvas |-> canvas, maskCanvas |-> maskCanvas,
          originalImageData |-> originalImageData]
    ELSE [canvas |-> ImagePixels(img),
          maskCanvas |-> Filled(img.width, img.height, BlackPixel),
          originalImageData |-> ImagePixels(img)]

\* Lines 550-572: the render after setImage mounts both canvases, once:
\* an element already mounted is kept as it is.
Mounted(c) == IF c = Null THEN BlankCanvas ELSE c

\* Lines 136-149: reader.onload: the data URL is handed to a new Image.
ReaderOnload(u) ==
    /\ uploads[u].pc = "reading"
    /\ uploads' = [uploads EXCEPT ![u].pc = "loading"]
    /\ UNCHANGED <<reactVars, domVars, submits, gw>>

\* Lines 150-152: reader.onerror.
ReaderOnerror(u) ==
    /\ uploads[u].pc = "reading"
    /\ error' = "Failed to read file. Please try again."
    /\ uploads' = [uploads EXCEPT ![u].pc = "done"]
    /\ UNCHANGED <<image, brushSize, originalFile, isDrawing, prompt, editedImage, maskImage,
                   isLoading, domVars, submits, gw>>

\* Lines 140-143: img.onload of the upload: setImage, then setupCanvas in the
\* same callback; React renders (and mounts the canvases) after it returns.
UploadImgOnload(u) ==
    /\ uploads[u].pc = "loading"
    /\ uploads[u].result.decodable
    /\ LET img == ImageOf(uploads[u].result)
           set == setupCanvas(img)
       IN  /\ image' = img
           /\ canvas' = Mounted(set.canvas)
           /\ maskCanvas' = Mounted(set.maskCanvas)
           /\ originalImageData' = set.originalImageData
    /\ uploads' = [uploads EXCEPT ![u].pc = "done"]
    /\ UNCHANGED <<originalFile, brushSize, isDrawing, prompt, editedImage, maskImage, isLoading,
                   error, submits, gw>>

\* Lines 144-146: img.onerror of the upload.
UploadImgOnerror(u) ==
    /\ uploads[u].pc = "loading"
    /\ ~uploads[u].result.decodable
    /\ error' = "Failed to load image. Please try another file."
    /\ uploads' = [uploads EXCEPT ![u].pc = "done"]
    /\ UNCHANGED <<image, brushSize, originalFile, isDrawing, prompt, editedImage, maskImage,
                   isLoading, domVars, submits, gw>>

\* ---------------------------------------------------------------- painting

\* The fill of lines 270-273 taken as replacing the pixel, not drawn over it.
BlendReplace(pixel, cover) ==
    IF cover = 0 THEN pixel ELSE <<cover, cover, cover, 255>>

\* Lines 270-273: fill() of a white disc, for one pixel. cover is what the
\* rasteriser makes of the disc there: 0 outside it, 255 inside it, a value
\* between on its antialiased edge. White drawn source-over never lowers a
\* channel; on a transparent pixel it leaves white with the coverage as alpha.
Blend(pixel, cover) ==
    IF cover = 0 THEN pixel
    ELSE IF pixel[4] = 255
         THEN <<Max(pixel[1], cover), Max(pixel[2], cover), Max(pixel[3], cover), 255>>
         ELSE <<255, 255, 255, Max(pixel[4], cover)>>

\* Lines 249-256: the tint of one display pixel.
Tint(pixel, maskPixel) ==
    IF maskPixel[1] > 128
    THEN <<Min(255, pixel[1] + 100), Max(0, pixel[2] - 50), Max(0, pixel[3] - 50),
           pixel[4]>>
    ELSE pixel

\* updateCanvasWithMask without the putImageData of line 241: the tint is
\* laid over what the display canvas already shows.
updateCanvasWithMaskOverDisplay(mask) ==
    IF canvas = Null \/ mask = Null \/ originalImageData = Null
    THEN canvas
    ELSE [canvas EXCEPT !.data =
            [i \in DOMAIN canvas.data |->
                IF i \in DOMAIN mask.data
                THEN Tint(canvas.data[i], mask.data[i])
                ELSE canvas.data[i]]]

\* Lines 229-259: updateCanvasWithMask, given the mask canvas as drawMask
\* left it: the display canvas afterwards.
updateCanvasWithMask(mask) ==
    IF canvas = Null \/ mask = Null \/ originalImageData = Null
    THEN canvas
    ELSE [canvas EXCEPT !.data =
            [i \in DOMAIN canvas.data |->
                IF i \in DOMAIN mask.data /\ i \in DOMAIN originalImageData.data
                THEN Tint(originalImageData.data[i], mask.data[i])
                ELSE canvas.data[i]]]

\* Lines 269-273: the white disc filled on the mask canvas. cover gives the
\* disc's coverage of each pixel of the mask canvas (the pointer position
\* and the brush decide it).
AfterFill(cover) ==
    IF maskCanvas = Null THEN maskCanvas
    ELSE [maskCanvas EXCEPT !.data =
            [i \in DOMAIN maskCanvas.data |-> Blend(maskCanvas.data[i], cover[i])]]

\* Lines 262-277: drawMask: the fill, then the display canvas redrawn from
\* the mask canvas as filled.
AfterDrawMask(cover) ==
    [maskCanvas |-> AfterFill(cover), canvas |-> updateCanvasWithMask(AfterFill(cover))]

drawMask(cover) ==
    /\ maskCanvas' = AfterDrawMask(cover).maskCanvas
    /\ canvas' = AfterDrawMask(cover).canvas
    /\ UNCHANGED originalImageData

Covers == IF maskCanvas = Null THEN {<<>>}
          ELSE [DOMAIN maskCanvas.data -> Levels]

\* Lines 280-285: startDrawing (mouse down, touch start on the canvas).
startDrawing(cover) ==
    /\ canvas # Null
    /\ isDrawing' = TRUE
    /\ drawMask(cover)
    /\ UNCHANGED <<uploads, brushSize, image, originalFile, prompt, editedImage, maskImage,
                   isLoading, error, submits, gw>>

\* continueDrawing without the test of line 289.
AfterContinueDrawingUnguarded(cover) == AfterDrawMask(cover)

\* Lines 287-292: what continueDrawing leaves of the two canvases: nothing
\* changes when no stroke is active.
AfterContinueDrawing(cover) ==
    IF ~isDrawing
    THEN [maskCanvas |-> maskCanvas, canvas |-> canvas]
    ELSE AfterDrawMask(cover)

\* Lines 287-292: continueDrawing (mouse move, touch move on the canvas).
continueDrawing(cover) ==
    /\ canvas # Null
    /\ maskCanvas' = AfterContinueDrawing(cover).maskCanvas
    /\ canvas' = AfterContinueDrawing(cover).canvas
    /\ UNCHANGED originalImageData
    /\ UNCHANGED <<uploads, reactVars, submits, gw>>

\* Lines 294-296: stopDrawing (mouse up, mouse leave, touch end).
stopDrawing ==
    /\ canvas # Null
    /\ isDrawing' = FALSE
    /\ UNCHANGED <<uploads, brushSize, image, originalFile, prompt, editedImage, maskImage,
                   isLoading, error, domVars, submits, gw>>

\* Lines 299-316: what clearMask leaves of the two canvases and the cached
\* pixels; nothing changes when the cache or a canvas is missing.
AfterClearMask ==
    IF originalImageData = Null \/ canvas = Null \/ maskCanvas = Null
    THEN [canvas |-> canvas, maskCanvas |-> maskCanvas]
    ELSE [canvas |-> [canvas EXCEPT !.data =
                        [i \in DOMAIN canvas.data |->
                            IF i \in DOMAIN originalImageData.data
                            THEN originalImageData.data[i] ELSE canvas.data[i]]],
          maskCanvas |-> Filled(maskCanvas.width, maskCanvas.height, BlackPixel)]

\* Lines 299-316: clearMask (the Clear Mask button, rendered with the image).
clearMask ==
    /\ image # Null
    /\ canvas' = AfterClearMask.canvas
    /\ maskCanvas' = AfterClearMask.maskCanvas
    /\ UNCHANGED <<uploads, reactVars, originalImageData, submits, gw>>

\* ------------------------------------------------------ pointer and brush

\* Lines 450-452: handleBrushSizeChange (the range input between 20 and 500,
\* rendered with the image, lines 486-493).
handleBrushSizeChange(value) ==
    /\ image # Null
    /\ brushSize' = value
    /\ UNCHANGED <<uploads, image, originalFile, isDrawing, prompt, editedImage,
                   maskImage, isLoading, error, domVars, submits, gw>>

\* A mouse or touch event on the display canvas: the pointer's client
\* position and the rectangle getBoundingClientRect gives the canvas then.
PointerEvent(clientX, clientY, left, top, width, height) ==
    [clientX |-> clientX, clientY |-> clientY,
     rect |-> [left |-> left, top |-> top, width |-> width, height |-> height]]

\* A position in raster coordinates: x = xn / xd and y = yn / yd.
Position(xn, xd, yn, yd) == [xn |-> xn, xd |-> xd, yn |-> yn, yd |-> yd]

\* getPosition without the scale factors of lines 206-207.
getPositionUnscaled(event) ==
    IF canvas = Null THEN Position(0, 1, 0, 1)
    ELSE Position(event.clientX - event.rect.left, 1,
                  event.clientY - event.rect.top, 1)

\* Lines 202-226: getPosition. The code multiplies by the doubles
\* canvas.width / rect.width and canvas.height / rect.height; the model
\* keeps the exact quotient.
getPosition(event) ==
    IF canvas = Null THEN Position(0, 1, 0, 1)
    ELSE Position((event.clientX - event.rect.left) * canvas.width, event.rect.width,
                  (event.clientY - event.rect.top) * canvas.height, event.rect.height)

Abs(n) == IF n < 0 THEN -n ELSE n

RECURSIVE GCD(_, _)
GCD(a, b) == IF b = 0 THEN a ELSE GCD(b, a % b)

LCM(a, b) == (a * b) \div GCD(a, b)

\* The distance along one axis from p to the farthest and to the nearest
\* point of the interval lo..hi.
Farthest(lo, hi, p) == Max(Abs(lo - p), Abs(hi - p))
Nearest(lo, hi, p) == IF p < lo THEN lo - p ELSE IF p > hi THEN p - hi ELSE 0

\* Lines 270-272: arc(x, y, brushSize / 2, 0, 2 * Math.PI): the disc's
\* centre and radius, all in units of 1 / (2 * LCM(xd, yd)) of a pixel.
Arc(pos, diameter) ==
    LET m == LCM(pos.xd, pos.yd)
    IN  [unit |-> 2 * m,
         x |-> 2 * (m \div pos.xd) * pos.xn,
         y |-> 2 * (m \div pos.yd) * pos.yn,
         radius |-> diameter * m]

\* Line 273: fill(), for the pixel of column col and row row, which is the
\* unit square from (col, row) to (col + 1, row + 1): "inside" when the
\* square lies in the disc, "outside" when the disc covers none of it,
\* "edge" otherwise.
DiscSide(arc, col, row) ==
    LET fx == Farthest(col * arc.unit, (col + 1) * arc.unit, arc.x)
        fy == Farthest(row * arc.unit, (row + 1) * arc.unit, arc.y)
        nx == Nearest(col * arc.unit, (col + 1) * arc.unit, arc.x)
        ny == Nearest(row * arc.unit, (row + 1) * arc.unit, arc.y)
    IN  IF fx * fx + fy * fy <= arc.radius * arc.radius THEN "inside"
        ELSE IF nx * nx + ny * ny >= arc.radius * arc.radius THEN "outside"
        ELSE "edge"

\* What the rasteriser makes of the disc on a raster of the given width:
\* full coverage inside, none outside, and on the antialiased edge a value
\* of its own choosing, here the same for the whole edge of one disc.
DiscCover(pos, diameter, width, indices, edge) ==
    LET arc == Arc(pos, diameter)
    IN  [i \in indices |->
            LET side == DiscSide(arc, (i - 1) % width, (i - 1) \div width)
            IN  IF side = "inside" THEN 255 ELSE IF side = "outside" THEN 0 ELSE edge]

\* Lines 283-284 and 290-291: the covers a stroke point at this event can
\* leave on the mask canvas.
StrokeCovers(event, edges) ==
    IF maskCanvas = Null THEN {<<>>}
    ELSE {DiscCover(getPosition(event), brushSize, maskCanvas.width,
                    DOMAIN maskCanvas.data, edge) : edge \in edges}

\* ------------------------------------------------------------ alpha mask

\* The comparison of line 353 taken as "at least 128".
AlphaPixelInclusive(maskPixel) ==
    IF maskPixel[1] >= 128 THEN <<255, 255, 255, 255>> ELSE <<0, 0, 0, 0>>

\* Lines 352-368: the alpha mask's pixel for a mask pixel.
AlphaPixel(maskPixel) ==
    IF maskPixel[1] > 128 THEN <<255, 255, 255, 255>> ELSE <<0, 0, 0, 0>>

\* Lines 332-374: the alpha canvas generateMaskImage builds from the mask
\* canvas; the PNG data URL keeps it exactly.
AlphaMask(mask) ==
    Raster(mask.width, mask.height, [i \in DOMAIN mask.data |-> AlphaPixel(mask.data[i])])

\* Lines 319-377: generateMaskImage (the Generate Mask button).
generateMaskImage ==
    /\ image # Null
    /\ IF maskCanvas = Null
       THEN /\ error' = "Mask canvas not found"
            /\ UNCHANGED maskImage
       ELSE /\ maskImage' = AlphaMask(maskCanvas)
            /\ error' = ""
    /\ UNCHANGED <<uploads, brushSize, image, originalFile, isDrawing, prompt, editedImage,
                   isLoading, domVars, submits, gw>>

\* ------------------------------------------------------------------ strings

Whitespace == {" ", "\t"}

RECURSIVE TrimStart(_)
TrimStart(s) ==
    IF Len(s) > 0 /\ SubSeq(s, 1, 1) \in Whitespace
    THEN TrimStart(SubSeq(s, 2, Len(s)))
    ELSE s

RECURSIVE TrimEnd(_)
TrimEnd(s) ==
    IF Len(s) > 0 /\ SubSeq(s, Len(s), Len(s)) \in Whitespace
    THEN TrimEnd(SubSeq(s, 1, Len(s) - 1))
    ELSE s

\* String.prototype.trim.
Trim(s) == TrimEnd(TrimStart(s))

\* String.prototype.startsWith.
StartsWith(s, prefix) ==
    Len(s) >= Len(prefix) /\ SubSeq(s, 1, Len(prefix)) = prefix

\* String.prototype.includes.
Includes(s, part) ==
    \E i \in 1..(Len(s) - Len(part) + 1) : SubSeq(s, i, i + Len(part) - 1) = part

\* The prompts typed into the input.
Prompts == {"", " ", "\t ", "add a pond", " add a pond "}

\* ------------------------------------------------------------------- submit

IdleSubmit == [pc |-> "idle", originalFile |-> Null, prompt |-> "",
               maskBlob |-> Null, request |-> Null]

\* How many handleSubmit calls the model can hold in progress at once.
MaxConcurrentSubmits == 2
SubmitSlots == 1..MaxConcurrentSubmits

\* Lines 454-456: handlePromptChange (the input is rendered with the image).
handlePromptChange(value) ==
    /\ image # Null
    /\ prompt' = value
    /\ UNCHANGED <<uploads, brushSize, image, originalFile, isDrawing, editedImage, maskImage,
                   isLoading, error, domVars, submits, gw>>

\* Lines 405-413: canvas.toBlob(cb, 'image/png') copies the canvas bitmap
\* when it is called; the PNG keeps the pixels exactly.
MaskBlob(mask) == [kind |-> "file", name |-> "blob", size |-> 1, type |-> "image/png",
                   raster |-> mask]

\* Lines 415-418: the FormData of the request.
FormData(file, blob, text) ==
    [parsed |-> TRUE, image |-> file, mask |-> blob,
     prompt |-> [kind |-> "string", value |-> text]]

\* Lines 390-413: handleSubmit up to the await of the mask blob. The values
\* of originalFile and prompt are those of the render the handler closes over.
handleSubmit(s) ==
    /\ submits[s].pc = "idle"
    /\ IF originalFile = Null \/ Trim(prompt) = ""
       THEN /\ error' = "Please upload an image and enter a prompt"
            /\ UNCHANGED <<isLoading, submits>>
       ELSE IF maskCanvas = Null
       THEN /\ error' = "Error submitting request: Mask canvas not found"
            /\ isLoading' = FALSE
            /\ UNCHANGED submits
       ELSE /\ error' = ""
            /\ isLoading' = TRUE
            /\ submits' = [submits EXCEPT ![s] =
                  [pc |-> "blob", originalFile |-> originalFile, prompt |-> prompt,
                   maskBlob |-> MaskBlob(maskCanvas), request |-> Null]]
    /\ UNCHANGED <<uploads, brushSize, image, originalFile, isDrawing, prompt, editedImage,
                   maskImage, domVars, gw>>

\* The button of lines 529-536 without isLoading in its disabled attribute.
SubmitEnabledWhileLoading == image # Null /\ Trim(prompt) # ""

\* Lines 529-536: the Edit Image button is rendered with the image and is
\* disabled while loading or while the trimmed prompt is empty.
SubmitEnabled == image # Null /\ ~(isLoading \/ Trim(prompt) = "")

\* A click on the Edit Image button.
ClickSubmit(s) == SubmitEnabled /\ handleSubmit(s)

\* Lines 406-423: the mask blob arrives; the form is built and fetch starts.
MaskBlobCallback(s) ==
    /\ submits[s].pc = "blob"
    /\ submits' = [submits EXCEPT ![s].pc = "fetch",
                                  ![s].request = FormData(submits[s].originalFile,
                                                          submits[s].maskBlob,
                                                          submits[s].prompt)]
    /\ UNCHANGED <<uploads, reactVars, domVars, gw>>

\* Lines 409-411, 442-447: toBlob gives null: the promise rejects.
MaskBlobNull(s) ==
    /\ submits[s].pc = "blob"
    /\ error' = "Error submitting request: Failed to create mask blob"
    /\ isLoading' = FALSE
    /\ submits' = [submits EXCEPT ![s] = IdleSubmit]
    /\ UNCHANGED <<uploads, brushSize, image, originalFile, isDrawing, prompt, editedImage,
                   maskImage, domVars, gw>>

Response(status, success, url, err) ==
    [status |-> status, success |-> success, editedImageUrl |-> url, error |-> err]

\* The URL of the edit of a request: it names the image that was sent.
EditedUrl(request) == "https://edited/" \o request.image.name

\* Line 437: the state editedImage holding a URL (it is Null before).
Displayed(url) == [kind |-> "url", value |-> url]

\* Lines 425-441: the response is read. A status outside 200-299 throws;
\* otherwise the body decides.
AfterFetch(s, resp) ==
    IF resp.status < 200 \/ resp.status > 299
    THEN /\ error' = "Error submitting request: API request failed with status "
                        \o ToString(resp.status)
         /\ UNCHANGED editedImage
    ELSE IF resp.success /\ resp.editedImageUrl # ""
    THEN /\ editedImage' = Displayed(resp.editedImageUrl)
         /\ error' = ""
    ELSE /\ error' = IF resp.error # "" THEN resp.error
                     ELSE "Failed to edit image - no URL returned"
         /\ UNCHANGED editedImage

\* Lines 420-447: fetch resolves with a response.
FetchResolve(s, resp) ==
    /\ submits[s].pc = "fetch"
    /\ AfterFetch(s, resp)
    /\ isLoading' = FALSE
    /\ submits' = [submits EXCEPT ![s] = IdleSubmit]
    /\ UNCHANGED <<uploads, brushSize, image, originalFile, isDrawing, prompt, maskImage,
                   domVars, gw>>

\* Lines 420, 442-447: fetch rejects (the network fails).
FetchReject(s) ==
    /\ submits[s].pc = "fetch"
    /\ error' = "Error submitting request: Failed to fetch"
    /\ isLoading' = FALSE
    /\ submits' = [submits EXCEPT ![s] = IdleSubmit]
    /\ UNCHANGED <<uploads, brushSize, image, originalFile, isDrawing, prompt, editedImage,
                   maskImage, domVars, gw>>

\* ------------------------------------------------------------------ gateway

\* An entry of the request's form: Null (absent), a text field
\* [kind "string", value] or a file [kind "file", size, type, ...].
\* formData.get returns any of the three; the casts of lines 38-40 check
\* nothing.
StringEntry(v) == [kind |-> "string", value |-> v]
FileEntry(size, type) == [kind |-> "file", name |-> "upload", size |-> size, type |-> type]

\* JavaScript truthiness of an entry: null and "" are falsy.
Truthy(entry) == entry # Null /\ entry # StringEntry("")

IsFile(entry) == entry # Null /\ entry.kind = "file"

\* Lines 52, 59: entry.size > maxSize; a string has no size and undefined
\* compares false.
TooLarge(entry) == IsFile(entry) /\ entry.size > GatewayMaxSize

\* Lines 22-25: isValidImageFile, for a file.
isValidImageFile(file) == StartsWith(file.type, "image/")

ErrorResponse(status, message) == Response(status, FALSE, "", message)

\* A thrown value: isError is "instanceof Error", hasStatus is "'status' in
\* error".
Thrown(isError, hasStatus, status, message) ==
    [isError |-> isError, hasStatus |-> hasStatus, status |-> status,
     message |-> message]

\* What file.type.startsWith throws for an entry that is a string.
TypeError == Thrown(TRUE, FALSE, 0,
                    "Cannot read properties of undefined (reading 'startsWith')")

\* What request.formData() throws for a body that is no form.
BodyError == Thrown(TRUE, FALSE, 0, "Failed to parse body as FormData.")

\* The catch block without the case 429 of lines 183-187.
CatchWithoutRateLimit(err) ==
    IF err.isError
    THEN IF err.hasStatus /\ err.status \in {400, 401, 413, 500}
         THEN ErrorResponse(err.status, "Upstream error")
         ELSE IF Includes(err.message, "Connection error")
                 \/ Includes(err.message, "ECONNRESET")
         THEN ErrorResponse(408, "Connection timeout")
         ELSE ErrorResponse(500, "Failed to edit image: " \o err.message)
    ELSE ErrorResponse(500, "An unexpected error occurred while editing the image")

\* Lines 156-216: the catch block.
Catch(err) ==
    IF err.isError
    THEN IF err.hasStatus /\ err.status = 400
         THEN ErrorResponse(400, "Invalid request to OpenAI API. Please check your image format, size, and mask. Make sure both images are the same dimensions and under 4MB.")
         ELSE IF err.hasStatus /\ err.status = 401
         THEN ErrorResponse(401, "Invalid OpenAI API key. Please check your configuration.")
         ELSE IF err.hasStatus /\ err.status = 413
         THEN ErrorResponse(413, "Files too large. Please reduce image size to under 4MB.")
         ELSE IF err.hasStatus /\ err.status = 429
         THEN ErrorResponse(429, "Rate limit exceeded. Please try again later.")
         ELSE IF err.hasStatus /\ err.status = 500
         THEN ErrorResponse(500, "OpenAI API server error. Please try again later.")
         ELSE IF Includes(err.message, "Connection error")
                 \/ Includes(err.message, "ECONNRESET")
         THEN ErrorResponse(408, "Connection timeout. This usually happens with large files. Please try with a smaller image (under 2MB recommended).")
         ELSE ErrorResponse(500, "Failed to edit image: " \o err.message)
    ELSE ErrorResponse(500, "An unexpected error occurred while editing the image")

\* Lines 35-87: the request is read and validated. The result is the
\* response that ends the request, or Null when the request goes on to the
\* external API.
Validate(req) ==
    IF ~req.parsed THEN Catch(BodyError)
    ELSE IF ~Truthy(req.image) \/ ~Truthy(req.mask) \/ ~Truthy(req.prompt)
    THEN ErrorResponse(400, "Missing required fields: image, mask, and prompt")
    ELSE IF TooLarge(req.image)
    THEN ErrorResponse(400, "Image file too large. Maximum allowed: 4MB. Please resize your image.")
    ELSE IF TooLarge(req.mask)
    THEN ErrorResponse(400, "Mask file too large. Maximum allowed: 4MB.")
    ELSE IF ~IsFile(req.image) THEN Catch(TypeError)
    ELSE IF ~isValidImageFile(req.image)
    THEN ErrorResponse(400, "Invalid image file type. Please upload a valid image file.")
    ELSE IF ~IsFile(req.mask) THEN Catch(TypeError)
    ELSE IF ~isValidImageFile(req.mask)
    THEN ErrorResponse(400, "Invalid mask file type. Please provide a valid mask image.")
    ELSE IF req.prompt.kind # "string" \/ Len(Trim(req.prompt.value)) = 0
    THEN ErrorResponse(400, "Prompt must be a non-empty string")
    ELSE Null

\* The normalisation of lines 124-154 answering the first item's url as it
\* is, without the checks of lines 136-147.
NormalizeUrlUnchecked(data) ==
    IF data = Null \/ Len(data.items) = 0
    THEN ErrorResponse(500, "No edited image returned from OpenAI API")
    ELSE Response(200, TRUE, data.items[1].url, "")

\* Lines 124-154: the response for what the external API returned. data is
\* Null (undefined) or [items], a sequence of [url, b64_json], "" for a field
\* that is absent or empty.
Normalize(data) ==
    IF data = Null \/ Len(data.items) = 0
    THEN ErrorResponse(500, "No edited image returned from OpenAI API")
    ELSE IF data.items[1].url # ""
    THEN Response(200, TRUE, data.items[1].url, "")
    ELSE IF data.items[1].b64_json # ""
    THEN Response(200, TRUE, "data:image/png;base64," \o data.items[1].b64_json, "")
    ELSE ErrorResponse(500, "Invalid response format from OpenAI API")

IdleGateway == [pc |-> "idle", req |-> Null, calls |-> 0, resp |-> Null]

\* Lines 33-119: POST up to its response or to the await of
\* openai.images.edit.
POST(req) ==
    /\ gw.pc = "idle"
    /\ gw' = IF Validate(req) = Null
             THEN [pc |-> "calling", req |-> req, calls |-> 1, resp |-> Null]
             ELSE [pc |-> "responded", req |-> req, calls |-> 0, resp |-> Validate(req)]
    /\ UNCHANGED <<uploads, reactVars, domVars, submits>>

\* Lines 121-154: openai.images.edit returns.
UpstreamReturn(data) ==
    /\ gw.pc = "calling"
    /\ gw' = [gw EXCEPT !.pc = "responded", !.resp = Normalize(data)]
    /\ UNCHANGED <<uploads, reactVars, domVars, submits>>

\* The catch block calling openai.images.edit once more after a 429.
UpstreamThrowRetry(err) ==
    /\ gw.pc = "calling"
    /\ gw' = IF err.isError /\ err.hasStatus /\ err.status = 429 /\ gw.calls < 2
             THEN [gw EXCEPT !.calls = @ + 1]
             ELSE [gw EXCEPT !.pc = "responded", !.resp = Catch(err)]
    /\ UNCHANGED <<uploads, reactVars, domVars, submits>>

\* Lines 156-216: openai.images.edit throws.
UpstreamThrow(err) ==
    /\ gw.pc = "calling"
    /\ gw' = [gw EXCEPT !.pc = "responded", !.resp = Catch(err)]
    /\ UNCHANGED <<uploads, reactVars, domVars, submits>>

\* Line 33: the response is returned and the request is over.
Respond ==
    /\ gw.pc = "responded"
    /\ gw' = IdleGateway
    /\ UNCHANGED <<uploads, reactVars, domVars, submits>>

\* The forms a client may post.
FileEntries == { FileEntry(sz, t) : sz \in {0, GatewayMaxSize, GatewayMaxSize + 1},
                                    t \in {"image/png", "text/plain", ""} }
ImageEntries == {Null, StringEntry(""), StringEntry("abc")} \cup FileEntries
PromptEntries == {Null, FileEntry(0, "text/plain")} \cup { StringEntry(p) : p \in Prompts }
Requests ==
    [parsed : {TRUE}, image : ImageEntries, mask : ImageEntries, prompt : PromptEntries]
    \cup {[parsed |-> FALSE, image |-> Null, mask |-> Null, prompt |-> Null]}

\* What the external API may return.
Item(url, b64) == [url |-> url, b64_json |-> b64]
Data(items) == [kind |-> "data", items |-> items]
UpstreamData == {Null, Data(<<>>), Data(<<Item("https://cdn/1.png", "")>>),
                 Data(<<Item("", "QUJD")>>), Data(<<Item("https://cdn/1.png", "QUJD")>>),
                 Data(<<Item("", "")>>)}

\* What the external API's client may throw: an APIError with or without a
\* status, some other Error, or a value that is no Error.
UpstreamStatuses == {400, 401, 403, 413, 429, 500, 503}
UpstreamMessages == {"Connection error.", "read ECONNRESET", "Request failed"}
UpstreamErrors ==
    { Thrown(TRUE, TRUE, st, m) : st \in UpstreamStatuses, m \in UpstreamMessages }
    \cup { Thrown(TRUE, h, 0, m) : h \in BOOLEAN, m \in UpstreamMessages }
    \cup { Thrown(FALSE, FALSE, 0, "") }

\* ----------------------------------------------------------- specifications

Init ==
    /\ uploads = [u \in UploadSlots |-> IdleUpload]
    /\ image = Null
    /\ originalFile = Null
    /\ isDrawing = FALSE
    /\ brushSize = DefaultBrushSize
    /\ prompt = ""
    /\ editedImage = Null
    /\ maskImage = Null
    /\ isLoading = FALSE
    /\ error = ""
    /\ canvas = Null
    /\ maskCanvas = Null
    /\ originalImageData = Null
    /\ submits = [s \in SubmitSlots |-> IdleSubmit]
    /\ gw = IdleGateway

\* The compressor on its own: one upload at a time, any file.
CompressNext ==
    \/ \E f \in CompressFiles, c \in BOOLEAN : handleImageUpload(1, f, c)
    \/ CompressImgOnload(1)
    \/ CompressImgOnerror(1)
    \/ \E b \in BlobSizes : ToBlobCallback(1, b)
    \/ ToBlobNull(1)
    \/ AfterCompress(1)

CompressSpec == Init /\ [][CompressNext]_vars

\* The browser delivers every pending callback: the image's load or error
\* event, and the toBlob callback with a blob or with null.
EncodeDone == (\E b \in BlobSizes : ToBlobCallback(1, b)) \/ ToBlobNull(1)

CompressFairSpec ==
    /\ CompressSpec
    /\ WF_vars(CompressImgOnload(1))
    /\ WF_vars(CompressImgOnerror(1))
    /\ WF_vars(EncodeDone)

\* The route handler on its own: any form, any answer of the external API.
GatewayNext ==
    \/ \E req \in Requests : POST(req)
    \/ \E data \in UpstreamData : UpstreamReturn(data)
    \/ \E err \in UpstreamErrors : UpstreamThrow(err)
    \/ Respond

GatewaySpec == Init /\ [][GatewayNext]_vars

\* The files picked in the editor: one under the budget, one over it, and
\* one over it that is no image.
EditorFiles == {File("a", Budget, "image/png", TRUE, 1, 1),
                File("b", Budget + 1, "image/png", TRUE, 1, 2),
                File("c", GatewayMaxSize + 1, "application/pdf", FALSE, 1, 1)}

\* What the route handler may answer to a request, the edit's URL naming the
\* image sent.
GatewayResponses(req) ==
    IF Validate(req) # Null THEN {Validate(req)}
    ELSE {Normalize(Data(<<Item(EditedUrl(req), "")>>)), Normalize(Data(<<>>))}
         \cup {Catch(e) : e \in UpstreamErrors}

\* Sizes the encoder hands back in the editor: under the budget and over it.
EditorBlobSizes == {1, Budget + 1}

\* The upload of one file at a time, from the picker to the canvases.
UploadNext(files) ==
    \/ \E f \in files, c \in BOOLEAN : handleImageUpload(1, f, c)
    \/ CompressImgOnload(1)
    \/ CompressImgOnerror(1)
    \/ \E b \in EditorBlobSizes : ToBlobCallback(1, b)
    \/ ToBlobNull(1)
    \/ AfterCompress(1)
    \/ ReaderOnload(1)
    \/ ReaderOnerror(1)
    \/ UploadImgOnload(1)
    \/ UploadImgOnerror(1)

\* The editor's canvases: uploads, painting, clearing and the alpha mask.
Next ==
    \/ UploadNext(EditorFiles)
    \/ \E cover \in Covers : startDrawing(cover)
    \/ \E cover \in Covers : continueDrawing(cover)
    \/ stopDrawing
    \/ clearMask
    \/ generateMaskImage

Spec == Init /\ [][Next]_vars

\* The file picked where the upload itself is not in question.
PlainFile == File("a", Budget, "image/png", TRUE, 1, 1)

\* The prompts typed where submission is in question.
SubmitPrompts == {"", " ", "add a pond"}

\* The discs painted where the mask's edge is not in question: a pixel is
\* inside or outside.
SolidCovers == IF maskCanvas = Null THEN {<<>>}
               ELSE [DOMAIN maskCanvas.data -> {0, 255}]

\* Submission from the editor: an image, a painted mask, a prompt, the
\* button, and the answer to the request.
SubmitNext ==
    \/ handleImageUpload(1, PlainFile, TRUE)
    \/ AfterCompress(1)
    \/ ReaderOnload(1)
    \/ UploadImgOnload(1)
    \/ \E cover \in SolidCovers : startDrawing(cover)
    \/ stopDrawing
    \/ \E p \in SubmitPrompts : handlePromptChange(p)
    \/ \E s \in SubmitSlots : ClickSubmit(s)
    \/ \E s \in SubmitSlots : MaskBlobCallback(s)
    \/ \E s \in SubmitSlots : MaskBlobNull(s)
    \/ \E s \in SubmitSlots :
          /\ submits[s].pc = "fetch"
          /\ \E resp \in GatewayResponses(submits[s].request) : FetchResolve(s, resp)
    \/ \E s \in SubmitSlots : FetchReject(s)

SubmitSpec == Init /\ [][SubmitNext]_vars

\* The forms posted where the prompt is in question: each of image and mask
\* absent, a text field or a small PNG, with every prompt.
RequestEntries == {Null, StringEntry("abc"), FileEntry(0, "image/png")}
RequestForms ==
    [parsed : {TRUE}, image : RequestEntries, mask : RequestEntries, prompt : PromptEntries]

\* A call of handleSubmit itself, whatever the button's state, beside the
\* route handler answering any form.
RequestNext ==
    \/ handleImageUpload(1, PlainFile, TRUE)
    \/ AfterCompress(1)
    \/ ReaderOnload(1)
    \/ UploadImgOnload(1)
    \/ \E p \in SubmitPrompts : handlePromptChange(p)
    \/ handleSubmit(1)
    \/ MaskBlobCallback(1)
    \/ FetchReject(1)
    \/ /\ submits[1].pc = "fetch"
       /\ \E resp \in GatewayResponses(submits[1].request) : FetchResolve(1, resp)
    \/ \E req \in RequestForms : POST(req)
    \/ \E data \in UpstreamData : UpstreamReturn(data)
    \/ \E err \in UpstreamErrors : UpstreamThrow(err)
    \/ Respond

RequestSpec == Init /\ [][RequestNext]_vars

\* The files picked where painting is in question: two images of different
\* sizes, both under the budget.
PaintFiles == {File("a", Budget, "image/png", TRUE, 1, 1),
               File("b", Budget, "image/png", TRUE, 1, 2)}

\* Painting: uploads that load, strokes of every coverage, and clearMask.
PaintNext ==
    \/ \E f \in PaintFiles : handleImageUpload(1, f, TRUE)
    \/ AfterCompress(1)
    \/ ReaderOnload(1)
    \/ UploadImgOnload(1)
    \/ \E cover \in Covers : startDrawing(cover)
    \/ \E cover \in Covers : continueDrawing(cover)
    \/ stopDrawing
    \/ clearMask

PaintSpec == Init /\ [][PaintNext]_vars

\* The file picked where the brush's geometry is in question: an image large
\* enough to hold a disc of the default brush with pixels left outside it.
StrokeFiles == {File("g", Budget, "image/png", TRUE, 24, 24)}

\* The brush sizes the slider is moved to.
BrushSizes == {20, 22}

\* The stroke points tried: the canvas shown at its raster size, and shown
\* away from the viewport's corner at twice its width and half its height.
PointerEvents == {PointerEvent(12, 12, 0, 0, 24, 24),
                  PointerEvent(30, 12, 5, 7, 48, 12)}

\* What the rasteriser leaves on a disc's edge in the strokes tried: a grey.
EdgeLevels == {128}

\* Strokes by position: uploads that load, brush changes, stroke points at
\* the events above, and clearMask.
StrokeNext ==
    \/ \E f \in StrokeFiles : handleImageUpload(1, f, TRUE)
    \/ AfterCompress(1)
    \/ ReaderOnload(1)
    \/ UploadImgOnload(1)
    \/ \E value \in BrushSizes : handleBrushSizeChange(value)
    \/ \E event \in PointerEvents : \E cover \in StrokeCovers(event, EdgeLevels) :
            startDrawing(cover)
    \/ \E event \in PointerEvents : \E cover \in StrokeCovers(event, EdgeLevels) :
            continueDrawing(cover)
    \/ stopDrawing
    \/ clearMask

StrokeSpec == Init /\ [][StrokeNext]_vars

\* The prompts typed where the image is replaced during a submission.
ReplacePrompts == {"", "add a pond"}

\* An image replaced around a submission: uploads of two images, a prompt,
\* the button, and the answer to the request, in any order the handlers
\* allow.
ReplaceNext ==
    \/ \E f \in PaintFiles : handleImageUpload(1, f, TRUE)
    \/ AfterCompress(1)
    \/ ReaderOnload(1)
    \/ UploadImgOnload(1)
    \/ \E p \in ReplacePrompts : handlePromptChange(p)
    \/ ClickSubmit(1)
    \/ MaskBlobCallback(1)
    \/ /\ submits[1].pc = "fetch"
       /\ \E resp \in GatewayResponses(submits[1].request) : FetchResolve(1, resp)
    \/ FetchReject(1)

ReplaceSpec == Init /\ [][ReplaceNext]_vars

\* The files picked where the order of uploads is in question: two images
\* and a file that is no image, all under the budget.
OverlapFiles == PaintFiles \cup {File("c", 1, "image/png", FALSE, 1, 1)}

\* Uploads that may overlap: a second file is picked while the first is
\* still being compressed, read or decoded.
OverlapNext ==
    \E u \in UploadSlots :
        \/ \E f \in OverlapFiles : handleImageUpload(u, f, TRUE)
        \/ AfterCompress(u)
        \/ ReaderOnload(u)
        \/ UploadImgOnload(u)
        \/ UploadImgOnerror(u)

OverlapSpec == Init /\ [][OverlapNext]_vars

\* =================================================================== claims

\* C1: generateMaskImage produces an alpha mask of the mask canvas's width
\* and height in which each pixel is (255,255,255,255) where the mask
\* canvas's red channel is above 128 and (0,0,0,0) otherwise: alpha is 255
\* exactly where red > 128, and red = 128 gives a transparent pixel.
C1_AlphaMaskRule ==
    [][generateMaskImage /\ maskCanvas # Null =>
          /\ maskImage'.width = maskCanvas.width
          /\ maskImage'.height = maskCanvas.height
          /\ DOMAIN maskImage'.data = 1..(maskCanvas.width * maskCanvas.height)
          /\ \A i \in DOMAIN maskCanvas.data :
                /\ maskCanvas.data[i][1] > 128 => maskImage'.data[i] = <<255, 255, 255, 255>>
                /\ maskCanvas.data[i][1] <= 128 => maskImage'.data[i] = <<0, 0, 0, 0>>
                /\ (maskImage'.data[i][4] = 255) <=> (maskCanvas.data[i][1] > 128)]_vars

\* C1's case: a generated mask, of a mask canvas that still holds a pixel
\* of red 128 and a pixel of red 129, transparent at the one and opaque at
\* the other.
C1_Witness ==
    /\ maskImage # Null
    /\ maskCanvas # Null
    /\ DOMAIN maskImage.data = DOMAIN maskCanvas.data
    /\ \E i, j \in DOMAIN maskCanvas.data :
          /\ maskCanvas.data[i] = <<128, 128, 128, 255>>
          /\ maskImage.data[i] = <<0, 0, 0, 0>>
          /\ maskCanvas.data[j] = <<129, 129, 129, 255>>
          /\ maskImage.data[j] = <<255, 255, 255, 255>>

\* C9: once an upload's image has loaded, the mask canvas has the width and
\* height of the loaded image (the first upload of a session included), and
\* it keeps them under strokes, clearMask and generateMaskImage.
C9_MaskMatchesImage ==
    image # Null =>
        /\ maskCanvas # Null
        /\ maskCanvas.width = image.width
        /\ maskCanvas.height = image.height

\* C10: in every state with an image uploaded, after any strokes,
\* clearMask followed at once by generateMaskImage gives an alpha mask with
\* alpha 0 at every pixel.
C10_ClearThenGenerateTransparent ==
    image # Null =>
        \A i \in DOMAIN AfterClearMask.maskCanvas.data :
            AlphaMask(AfterClearMask.maskCanvas).data[i][4] = 0

\* A raster in which every pixel is opaque white or fully transparent.
IsAlphaMask(raster) ==
    \A i \in DOMAIN raster.data :
        raster.data[i] \in {<<255, 255, 255, 255>>, <<0, 0, 0, 0>>}

\* C2: the mask field of every edit request the client sends is the alpha
\* mask of the mask canvas (alpha 255 where it is white, alpha 0 where it is
\* black), not the opaque black and white mask canvas itself.
C2_RequestCarriesAlphaMask ==
    \A s \in SubmitSlots :
        submits[s].pc = "fetch" =>
            /\ IsAlphaMask(submits[s].request.mask.raster)
            /\ submits[s].request.mask.raster = AlphaMask(submits[s].maskBlob.raster)

\* The prompts that are empty or whitespace only.
BlankPrompts == {"", " ", "\t "}

\* C3: a submission with an empty or whitespace-only prompt makes no network
\* call and gives a validation error: handleSubmit sets an error and starts
\* no fetch, and the route handler answers 400 without calling the external
\* API.
C3_BlankPromptRejected ==
    /\ [][handleSubmit(1) /\ prompt \in BlankPrompts =>
              /\ error' # ""
              /\ submits'[1].pc = "idle"]_vars
    /\ [](gw.pc = "responded" /\ gw.req.parsed /\ gw.req.prompt # Null
            /\ gw.req.prompt.kind = "string" /\ gw.req.prompt.value \in BlankPrompts
          => gw.resp.status = 400 /\ gw.resp.error # "" /\ gw.calls = 0)

\* An entry that is a file whose content type does not start with "image/".
NotImageTyped(entry) ==
    entry # Null /\ entry.kind = "file" /\ entry.type \in {"text/plain", ""}

\* C4: a POST in which the image or the mask is missing, or one of the files
\* is larger than 4,194,304 bytes, or one of the files has a content type not
\* starting with "image/", is answered with an error body and status 400, and
\* the external API is not called for it.
C4_InvalidFilesRejected ==
    gw.pc = "responded"
    /\ ( \/ gw.req.image = Null \/ gw.req.mask = Null
         \/ (IsFile(gw.req.image) /\ gw.req.image.size > 4194304)
         \/ (IsFile(gw.req.mask) /\ gw.req.mask.size > 4194304)
         \/ NotImageTyped(gw.req.image) \/ NotImageTyped(gw.req.mask) )
    => gw.resp.status = 400 /\ gw.resp.error # "" /\ ~gw.resp.success /\ gw.calls = 0

\* The status C5 gives for a failure of the external API.
C5_Status(err) ==
    IF err.isError /\ err.hasStatus /\ err.status \in {400, 401, 413, 429, 500}
    THEN err.status
    ELSE IF err.isError /\ (Includes(err.message, "Connection error")
                            \/ Includes(err.message, "ECONNRESET"))
    THEN 408
    ELSE 500

\* C5: when the call of the external API fails, an upstream status among
\* 400, 401, 413, 429, 500 is answered with the same status (429 with "Rate
\* limit exceeded. Please try again later."), otherwise a message holding
\* "Connection error" or "ECONNRESET" gives 408, and every other failure 500;
\* and every status the route handler answers is one of 200, 400, 401, 408,
\* 413, 429, 500.
C5_UpstreamFailureStatus ==
    /\ [][\A err \in UpstreamErrors :
            UpstreamThrow(err) =>
                /\ gw'.resp.status = C5_Status(err)
                /\ ~gw'.resp.success
                /\ (gw'.resp.status = 429 =>
                        gw'.resp.error = "Rate limit exceeded. Please try again later.")]_vars
    /\ [](gw.pc = "responded" =>
            gw.resp.status \in {200, 400, 401, 408, 413, 429, 500})

\* C5's case: the external API was called and failed with status 429.
C5_Witness ==
    /\ gw.pc = "responded"
    /\ gw.calls = 1
    /\ gw.resp.status = 429
    /\ gw.resp.error = "Rate limit exceeded. Please try again later."

\* The attempts from the highest quality down to the floor.
AttemptLimit == (QualityHigh - QualityFloor) \div QualityStep + 1

\* C6: every call of compressImage resolves with a file: a pending decode or
\* encode leads to the resolved promise; the re-encode attempts are bounded;
\* and a decode failure, a missing 2D context and a null blob each resolve
\* with the original file.
C6_CompressResolves ==
    /\ (uploads[1].pc \in {"decode", "encode"}) ~> (uploads[1].pc = "resolved")
    /\ [](Len(uploads[1].tried) <= AttemptLimit)
    /\ [](uploads[1].pc = "resolved" => uploads[1].result # Null)
    /\ [][ \/ CompressImgOnerror(1)
           \/ ToBlobNull(1)
           \/ (CompressImgOnload(1) /\ ~uploads[1].ctx)
           => uploads'[1].pc = "resolved" /\ uploads'[1].result = uploads[1].file]_vars

\* C6's case: an over-budget file whose attempts all stayed over the budget,
\* resolved at the floor with the last attempt.
C6_Witness ==
    /\ uploads[1].pc = "resolved"
    /\ uploads[1].file.size > Budget
    /\ Len(uploads[1].tried) = AttemptLimit
    /\ uploads[1].result # uploads[1].file

\* C7: for a file over the budget, the file compressImage returns is no
\* larger than the original, whatever sizes the attempts produce.
C7_OutputNoLargerThanInput ==
    uploads[1].pc = "resolved" /\ uploads[1].file.size > Budget
    => uploads[1].result.size <= uploads[1].file.size

\* C8: after the upload of a file over the budget, the file the client holds
\* as originalFile is at most 4,194,304 bytes, so the route handler's size
\* check does not reject it.
C8_AcceptedFileFitsGateway ==
    uploads[1].pc = "reading" /\ uploads[1].file.size > Budget
        /\ originalFile = uploads[1].result
    => originalFile.size <= 4194304 /\ ~TooLarge(originalFile)

\* A mask pixel that counts as painted: the overlay and the alpha mask both
\* test red > 128.
IsWhite(pixel) == pixel[1] > 128

\* The number of painted pixels of a raster.
WhiteCount(raster) == Cardinality({i \in DOMAIN raster.data : IsWhite(raster.data[i])})

\* A step of beginStroke or extendStroke.
StrokeStep == \E cover \in Covers : startDrawing(cover) \/ continueDrawing(cover)

\* C11: strokes never erase. Across a startDrawing or continueDrawing step
\* every mask pixel that was white stays white, no channel of any mask pixel
\* gets lower and the count of white pixels does not decrease; and a step
\* that turns a white pixel into a pixel that is not white is a clearMask or
\* the load of a new upload.
C11_StrokesNeverErase ==
    /\ [][StrokeStep /\ maskCanvas # Null =>
            /\ DOMAIN maskCanvas'.data = DOMAIN maskCanvas.data
            /\ \A i \in DOMAIN maskCanvas.data :
                  /\ IsWhite(maskCanvas.data[i]) => IsWhite(maskCanvas'.data[i])
                  /\ maskCanvas.data[i] = WhitePixel => maskCanvas'.data[i] = WhitePixel
                  /\ \A k \in 1..4 : maskCanvas'.data[i][k] >= maskCanvas.data[i][k]
            /\ WhiteCount(maskCanvas') >= WhiteCount(maskCanvas)]_vars
    /\ [][(maskCanvas # Null /\ \E i \in DOMAIN maskCanvas.data :
               /\ IsWhite(maskCanvas.data[i])
               /\ i \in DOMAIN maskCanvas'.data => ~IsWhite(maskCanvas'.data[i]))
           => clearMask \/ UploadImgOnload(1)]_vars

\* C11's case: a stroke in progress over a mask canvas that holds a white
\* pixel and a pixel painted only to red 128.
C11_Witness ==
    /\ isDrawing
    /\ maskCanvas # Null
    /\ \E i, j \in DOMAIN maskCanvas.data :
          /\ maskCanvas.data[i] = WhitePixel
          /\ maskCanvas.data[j] = <<128, 128, 128, 255>>

\* The handleSubmit calls that have started a request and not finished it.
InFlight == {s \in SubmitSlots : submits[s].pc \in {"blob", "fetch"}}

\* C12: at most one edit request is in flight at any time: while a
\* handleSubmit call is between its start and the end of its request,
\* isLoading is set, the Edit Image button is disabled, and no other call
\* has a fetch started or pending.
C12_OneRequestInFlight ==
    /\ Cardinality(InFlight) <= 1
    /\ InFlight # {} => isLoading /\ ~SubmitEnabled
    /\ Cardinality({s \in SubmitSlots : submits[s].pc = "fetch"}) <= 1

\* C12's case: a request is being fetched while the image and a prompt are
\* there, so that only isLoading keeps the button disabled.
C12_Witness ==
    /\ \E s \in SubmitSlots : submits[s].pc = "fetch"
    /\ image # Null
    /\ Trim(prompt) # ""
    /\ ~SubmitEnabled

\* A response that handleSubmit takes as a failure: a status outside 200-299,
\* or a body without success and a URL.
FailedResponse(resp) ==
    ~(resp.status >= 200 /\ resp.status <= 299 /\ resp.success /\ resp.editedImageUrl # "")

\* A step in which a submission fails: the fetch rejects, the mask blob is
\* null, or the response is a failure.
SubmitFailure ==
    \E s \in SubmitSlots :
        \/ FetchReject(s)
        \/ MaskBlobNull(s)
        \/ /\ submits[s].pc = "fetch"
           /\ \E resp \in GatewayResponses(submits[s].request) :
                 FailedResponse(resp) /\ FetchResolve(s, resp)

\* A step of an upload that fails: any step of the upload of a file that
\* cannot be decoded, from the pick to the load error, or a read error.
UploadFailure ==
    \/ \E f \in EditorFiles, c \in BOOLEAN : ~f.decodable /\ handleImageUpload(1, f, c)
    \/ /\ uploads[1].pc \in {"decode", "encode", "resolved", "reading", "loading"}
       /\ ~uploads[1].file.decodable
       /\ uploads' # uploads
    \/ ReaderOnerror(1)
    \/ UploadImgOnerror(1)

\* C13: an error leaves the client's state alone except for the banner. With
\* an image loaded, a failing submission and every step of an upload that
\* fails to read or decode leave the held file, the mask canvas, the
\* generated mask image, the displayed edited result and the prompt
\* unchanged; and a failed submission ends with an error shown and isLoading
\* false.
C13_ErrorKeepsState ==
    /\ [][image # Null /\ (SubmitFailure \/ UploadFailure) =>
            UNCHANGED <<originalFile, maskCanvas, maskImage, editedImage, prompt>>]_vars
    /\ [][SubmitFailure => error' # "" /\ ~isLoading']_vars

\* The half of C13 about submissions, by itself.
SubmitFailureKeepsState ==
    [][SubmitFailure =>
          /\ UNCHANGED <<originalFile, maskCanvas, maskImage, editedImage, prompt>>
          /\ error' # "" /\ ~isLoading']_vars

\* No handleImageUpload call is between its start and its last callback.
NoUploadInProgress == \A u \in UploadSlots : uploads[u].pc \in {"idle", "done"}

\* C14: the held file and the loaded image are replaced together. Whenever
\* no upload is in progress and an image is loaded, the file held for
\* submission is the file the displayed image was loaded from, and the cached
\* original pixels, once set up, are that image's pixels; also after an
\* upload that cannot be decoded and after uploads that overlap.
C14_FileAndImageTogether ==
    NoUploadInProgress /\ image # Null =>
        /\ originalFile # Null
        /\ image = ImageOf(originalFile)
        /\ originalImageData # Null => originalImageData = ImagePixels(ImageOf(originalFile))

\* C15, as stated: a file of at most 4,000,000 bytes is passed through
\* unchanged, with no re-encoding, and every decodable file of more than
\* 4,000,000 bytes is re-encoded at least once (a 2D context being there).
C15_PassThroughAt4000000 ==
    uploads[1].pc = "resolved" =>
        /\ uploads[1].file.size <= 4000000 =>
              uploads[1].result = uploads[1].file /\ uploads[1].tried = <<>>
        /\ uploads[1].file.size > 4000000 /\ uploads[1].file.decodable /\ uploads[1].ctx =>
              Len(uploads[1].tried) >= 1

\* C15, amended: the budget is 4000 * 1024 = 4,096,000 bytes. A file of at
\* most 4,096,000 bytes is passed through unchanged, with no decoding and no
\* re-encoding; a file of more than 4,096,000 bytes is never resolved without
\* a decode, and when it is decodable and the 2D context is there it is
\* re-encoded at least once.
C15_PassThroughAtBudget ==
    /\ uploads[1].pc = "resolved" =>
          /\ uploads[1].file.size <= 4096000 =>
                uploads[1].result = uploads[1].file /\ uploads[1].tried = <<>>
          /\ uploads[1].file.size > 4096000 /\ uploads[1].file.decodable /\ uploads[1].ctx =>
                Len(uploads[1].tried) >= 1
    /\ uploads[1].pc \in {"decode", "encode"} => uploads[1].file.size > 4096000

\* C15's case: a file of exactly 4,096,000 bytes, over 4,000,000, passed
\* through unchanged.
C15_Witness ==
    /\ uploads[1].pc = "resolved"
    /\ uploads[1].file.size = 4096000
    /\ uploads[1].file.decodable /\ uploads[1].ctx
    /\ uploads[1].result = uploads[1].file
    /\ uploads[1].tried = <<>>

C17_SuccessHasUrl ==
    /\ [](gw.pc = "responded" /\ gw.resp.success =>
            gw.resp.status = 200 /\ gw.resp.editedImageUrl # "" /\ gw.resp.error = "")
    /\ [][\A data \in UpstreamData :
            UpstreamReturn(data) =>
                IF data = Null \/ Len(data.items) = 0
                   \/ (data.items[1].url = "" /\ data.items[1].b64_json = "")
                THEN /\ gw'.resp.status = 500
                     /\ ~gw'.resp.success
                     /\ gw'.resp.error # ""
                     /\ gw'.resp.editedImageUrl = ""
                ELSE /\ gw'.resp.success
                     /\ gw'.resp.editedImageUrl =
                           IF data.items[1].url # "" THEN data.items[1].url
                           ELSE "data:image/png;base64," \o data.items[1].b64_json]_vars

\* C17's case: the external API returned an item with b64_json only, and
\* the answer is a success with the data URL.
C17_Witness ==
    /\ gw.pc = "responded"
    /\ gw.resp.success
    /\ gw.resp.editedImageUrl = "data:image/png;base64,QUJD"

\* C18: extendStroke is a no-op when no stroke is active. isDrawing is false
\* at the start and after every stopDrawing, and only startDrawing sets it;
\* and whenever isDrawing is false, continueDrawing with any coverage leaves
\* the mask canvas and the display canvas as they are.
C18_ExtendWithoutStrokeIsNoOp ==
    /\ [](~isDrawing /\ canvas # Null =>
            \A cover \in Covers :
                /\ AfterContinueDrawing(cover).maskCanvas = maskCanvas
                /\ AfterContinueDrawing(cover).canvas = canvas)
    /\ [][stopDrawing => ~isDrawing']_vars
    /\ [][isDrawing' /\ ~isDrawing => \E cover \in Covers : startDrawing(cover)]_vars
    /\ [][(\E cover \in Covers : continueDrawing(cover)) /\ ~isDrawing
            => UNCHANGED <<maskCanvas, canvas, originalImageData>>]_vars

\* C18's case: a stroke has painted a pixel white and has ended; a move
\* that painted would now change a further pixel.
C18_Witness ==
    /\ ~isDrawing
    /\ maskCanvas # Null
    /\ originalImageData # Null
    /\ \E i, j \in DOMAIN maskCanvas.data :
          /\ maskCanvas.data[i] = WhitePixel
          /\ maskCanvas.data[j] = BlackPixel

\* p is a prefix of s.
IsPrefix(p, s) == Len(p) <= Len(s) /\ \A i \in 1..Len(p) : p[i] = s[i]

\* The (quality, max dimension) pairs C19 lists, quality in hundredths.
AttemptsFrom70 == <<<<70, 1200>>, <<50, 1000>>, <<30, 800>>, <<10, 600>>>>
AttemptsFrom30 == <<<<30, 800>>, <<10, 600>>>>

\* The pairs tried for an over-budget input are a prefix of C19's list.
TriedIsPrefix ==
    uploads[1].file # Null =>
        IF uploads[1].file.size <= 10485760
        THEN IsPrefix(uploads[1].tried, AttemptsFrom70)
        ELSE IsPrefix(uploads[1].tried, AttemptsFrom30)

\* The file returned is the JPEG of the last attempt: of its type and of the
\* canvas size of the last max dimension tried.
ReturnedLastAttempt ==
    LET last == uploads[1].tried[Len(uploads[1].tried)]
    IN  /\ uploads[1].result.type = "image/jpeg"
        /\ uploads[1].result.name = uploads[1].file.name
        /\ <<uploads[1].result.width, uploads[1].result.height>> =
              ScaledDims(uploads[1].file.width, uploads[1].file.height, last[2])

\* C19, as stated: for an over-budget decodable input the pairs tried are a
\* prefix of (0.7,1200),(0.5,1000),(0.3,800),(0.1,600), or of (0.3,800),
\* (0.1,600) for an input over 10 MiB, and the file returned is the result of
\* the last attempt.
C19_TriedThenLastReturned ==
    /\ TriedIsPrefix
    /\ uploads[1].pc = "resolved" /\ uploads[1].file.size > 4096000
          /\ uploads[1].file.decodable /\ uploads[1].ctx
       => Len(uploads[1].tried) >= 1 /\ ReturnedLastAttempt

\* C19, amended: the pairs tried are a prefix of C19's list; after an
\* attempt that gave a blob, a further attempt is made exactly when the blob
\* is over 4,096,000 bytes and quality > 0.1 and dimension > 400, with
\* quality lowered by 0.2 and dimension by 200, clamped to 0.1 and 400;
\* otherwise the call returns that attempt's JPEG; and an attempt that gives
\* no blob returns the original file.
C19_AttemptSequence ==
    /\ []TriedIsPrefix
    /\ [][\A b \in BlobSizes :
            ToBlobCallback(1, b) =>
                IF b > 4096000 /\ uploads[1].quality > 10 /\ uploads[1].dimension > 400
                THEN /\ uploads'[1].pc = "encode"
                     /\ uploads'[1].tried =
                           Append(uploads[1].tried,
                                  <<Max(10, uploads[1].quality - 20),
                                    Max(400, uploads[1].dimension - 200)>>)
                ELSE /\ uploads'[1].pc = "resolved"
                     /\ uploads'[1].tried = uploads[1].tried
                     /\ uploads'[1].result.size = b
                     /\ ReturnedLastAttempt']_vars
    /\ [][ToBlobNull(1) =>
            uploads'[1].pc = "resolved" /\ uploads'[1].result = uploads[1].file]_vars

\* C19's case: an input over 10 MiB whose two attempts both stayed over the
\* budget, returned as the JPEG of the attempt at (0.1, 600).
C19_Witness ==
    /\ uploads[1].pc = "resolved"
    /\ uploads[1].file.size > 10485760
    /\ uploads[1].tried = AttemptsFrom30
    /\ uploads[1].result.type = "image/jpeg"
    /\ uploads[1].result.size > 4096000

StatedDisc(event, raster) ==
    [unit |-> 2 * event.rect.width * event.rect.height,
     x |-> 2 * event.rect.height * (event.clientX - event.rect.left) * raster.width,
     y |-> 2 * event.rect.width * (event.clientY - event.rect.top) * raster.height,
     radius |-> brushSize * event.rect.width * event.rect.height,
     width |-> raster.width]

Square(n) == n * n

\* Pixel i of the raster lies wholly in the disc: its four corners do.
WhollyInside(disc, i) ==
    LET col == (i - 1) % disc.width
        row == (i - 1) \div disc.width
    IN  \A a, b \in {0, 1} :
            Square((col + a) * disc.unit - disc.x) + Square((row + b) * disc.unit - disc.y)
            <= Square(disc.radius)

\* Pixel i of the raster lies wholly outside the disc: the point of the
\* pixel nearest the centre is not nearer than the radius.
WhollyOutside(disc, i) ==
    LET col == (i - 1) % disc.width
        row == (i - 1) \div disc.width
        px == Max(col * disc.unit, Min((col + 1) * disc.unit, disc.x))
        py == Max(row * disc.unit, Min((row + 1) * disc.unit, disc.y))
    IN  Square(px - disc.x) + Square(py - disc.y) >= Square(disc.radius)

\* C21 as stated: a stroke point at any of the events leaves every mask
\* pixel either white or as it was: white inside the disc, unchanged outside
\* it, and nothing between.
C21_ExactDisc ==
    maskCanvas # Null =>
        \A event \in PointerEvents : \A cover \in StrokeCovers(event, Levels) :
            LET after == AfterFill(cover)
                disc == StatedDisc(event, maskCanvas)
            IN  \A i \in DOMAIN maskCanvas.data :
                  /\ WhollyInside(disc, i) => after.data[i] = WhitePixel
                  /\ WhollyOutside(disc, i) => after.data[i] = maskCanvas.data[i]
                  /\ after.data[i] = WhitePixel \/ after.data[i] = maskCanvas.data[i]

\* C21: a stroke point at display position (cx, cy) turns white every mask
\* pixel that lies wholly inside the disc of radius brushSize / 2 centred at
\* ((cx - left) * rasterWidth / displayWidth, (cy - top) * rasterHeight /
\* displayHeight) and leaves unchanged every pixel wholly outside it; a pixel
\* the disc's edge crosses has no channel lowered.
C21_DiscWhiteOutsideUnchanged ==
    maskCanvas # Null =>
        \A event \in PointerEvents : \A cover \in StrokeCovers(event, Levels) :
            LET after == AfterFill(cover)
                disc == StatedDisc(event, maskCanvas)
            IN  /\ DOMAIN after.data = DOMAIN maskCanvas.data
                /\ \A i \in DOMAIN maskCanvas.data :
                      /\ WhollyInside(disc, i) => after.data[i] = WhitePixel
                      /\ WhollyOutside(disc, i) => after.data[i] = maskCanvas.data[i]
                      /\ \A k \in 1..4 : after.data[i][k] >= maskCanvas.data[i][k]

\* C21's case: during a stroke with the default brush the set-up mask canvas
\* holds the disc of a single stroke point at the middle of the canvas shown
\* at its raster size: white wholly inside, black wholly outside, with a grey
\* pixel on the edge, and pixels of all three kinds exist.
C21_Witness ==
    /\ isDrawing
    /\ brushSize = DefaultBrushSize
    /\ originalImageData # Null /\ maskCanvas # Null
    /\ LET disc == StatedDisc(PointerEvent(12, 12, 0, 0, 24, 24), maskCanvas)
       IN  /\ \A i \in DOMAIN maskCanvas.data :
                 /\ WhollyInside(disc, i) => maskCanvas.data[i] = WhitePixel
                 /\ WhollyOutside(disc, i) => maskCanvas.data[i] = BlackPixel
           /\ \E i \in DOMAIN maskCanvas.data : WhollyInside(disc, i)
           /\ \E i \in DOMAIN maskCanvas.data : WhollyOutside(disc, i)
           /\ \E i \in DOMAIN maskCanvas.data :
                 /\ ~WhollyInside(disc, i)
                 /\ ~WhollyOutside(disc, i)
                 /\ maskCanvas.data[i] = <<128, 128, 128, 255>>

\* C22: whenever an edited result is displayed it was produced from the
\* source image currently held: the displayed URL is that of the edit of
\* originalFile, so that no result of a submission of an earlier file stays
\* or appears once a new file is held.
C22_ResultFromHeldSource ==
    editedImage # Null =>
        /\ originalFile # Null
        /\ editedImage = Displayed(EditedUrl([image |-> originalFile]))

====
